---- MODULE Spec2Model ----
(***************************************************************************)
(* Model of eldavizon/graphicentropy: the matplotlib command-line program  *)
(* src/graphentropia.py and the evaluator functions and Streamlit page of  *)
(* src/entropy.py.                                                         *)
(*                                                                         *)
(* Numbers.  A Python/numpy float is modelled as a record                  *)
(*   [cls |-> "fin", num, den]   an exact rational num/den, den > 0        *)
(*   [cls |-> "inf", num = +-1]  an IEEE infinity with its sign            *)
(*   [cls |-> "nan"]             an IEEE NaN                               *)
(* Finite arithmetic is exact (no rounding, no overflow of finite          *)
(* values); the IEEE rules for nan and inf are kept, because both modules  *)
(* run their formulas under np.errstate(all='ignore').                     *)
(* Sequences are 1-based: index i of the model is index i-1 of the code.   *)
(*                                                                         *)
(* Left out: the rendering calls of matplotlib, plotly and Streamlit, the  *)
(* curve drawn by plot_boltzmann_distribution, plot_entropy_temperature's  *)
(* arrays, and the walkthrough and mini-laboratory of entropy.main.        *)
(***************************************************************************)
EXTENDS Integers, Sequences, FiniteSets, TLC

\* ------------------------------------------------------------------ bounds
\* Number of grid points of a sampled distribution (500 in the code).
GridLen == 3
\* Energies of a grid are drawn from 1..MaxE (units of the grid step).
MaxE == 4
\* Finite density samples are drawn from 0..MaxDens.
MaxDens == 3
\* Temperatures, areas given to the evaluators are drawn from -1..MaxT, -1..MaxA.
MaxT == 3
MaxA == 2
\* Emissivities are the fractions 0/EmissSteps .. EmissSteps/EmissSteps.
EmissSteps == 2

\* ------------------------------------------------------- physical constants
\* k = 1.380649e-23 J/K, in units of 1e-29 J/K.
KBoltz == 1380649
\* sigma = 5.670374419e-8 W/(m^2 K^4), truncated, in units of 1e-10.
Sigma == 567

\* ------------------------------------------------------------- float values
Abs(n) == IF n < 0 THEN -n ELSE n

RECURSIVE Gcd(_, _)
Gcd(a, b) == IF b = 0 THEN a ELSE Gcd(b, a % b)

\* The rational n/d (d # 0) in lowest terms with a positive denominator.
Rat(n, d) ==
    LET g == Gcd(Abs(n), Abs(d))
        s == IF d < 0 THEN -1 ELSE 1
    IN  [cls |-> "fin", num |-> s * (Abs(n) \div g) * (IF n < 0 THEN -1 ELSE 1),
         den |-> Abs(d) \div g]

Fin(n) == [cls |-> "fin", num |-> n, den |-> 1]
NaN == [cls |-> "nan", num |-> 0, den |-> 1]
PosInf == [cls |-> "inf", num |-> 1, den |-> 1]
NegInf == [cls |-> "inf", num |-> -1, den |-> 1]

IsFin(a) == a.cls = "fin"
IsNaN(a) == a.cls = "nan"
IsInf(a) == a.cls = "inf"
Sign(a) == IF a.num > 0 THEN 1 ELSE IF a.num < 0 THEN -1 ELSE 0
InfOf(s) == IF s > 0 THEN PosInf ELSE NegInf

FNeg(a) == IF IsNaN(a) THEN NaN ELSE [a EXCEPT !.num = -a.num]

FAdd(a, b) ==
    IF IsNaN(a) \/ IsNaN(b) THEN NaN
    ELSE IF IsInf(a) /\ IsInf(b) THEN (IF a.num = b.num THEN a ELSE NaN)
    ELSE IF IsInf(a) THEN a
    ELSE IF IsInf(b) THEN b
    ELSE Rat(a.num * b.den + b.num * a.den, a.den * b.den)

FSub(a, b) == FAdd(a, FNeg(b))

FMul(a, b) ==
    IF IsNaN(a) \/ IsNaN(b) THEN NaN
    ELSE IF IsInf(a) \/ IsInf(b)
         THEN (IF Sign(a) = 0 \/ Sign(b) = 0 THEN NaN ELSE InfOf(Sign(a) * Sign(b)))
    ELSE Rat(a.num * b.num, a.den * b.den)

\* Array division as numpy does it: x/0 is nan for x = 0 and +-inf otherwise.
FDiv(a, b) ==
    IF IsNaN(a) \/ IsNaN(b) THEN NaN
    ELSE IF IsInf(a) THEN (IF IsInf(b) THEN NaN
                           ELSE InfOf(Sign(a) * (IF Sign(b) < 0 THEN -1 ELSE 1)))
    ELSE IF IsInf(b) THEN Fin(0)
    ELSE IF b.num = 0 THEN (IF a.num = 0 THEN NaN ELSE InfOf(Sign(a)))
    ELSE Rat(a.num * b.den, a.den * b.num)

FAbs(a) == IF IsNaN(a) THEN NaN ELSE [a EXCEPT !.num = Abs(a.num)]

\* Comparisons: every comparison with a nan is False.
FLe(a, b) ==
    IF IsNaN(a) \/ IsNaN(b) THEN FALSE
    ELSE IF IsInf(a) THEN (a.num < 0 \/ (IsInf(b) /\ b.num > 0))
    ELSE IF IsInf(b) THEN b.num > 0
    ELSE a.num * b.den <= b.num * a.den

FLt(a, b) == FLe(a, b) /\ ~FLe(b, a)
FEq(a, b) == FLe(a, b) /\ FLe(b, a)

\* ------------------------------------------------ numpy array operations
RECURSIVE FSumTo(_, _)
FSumTo(s, n) == IF n = 0 THEN Fin(0) ELSE FAdd(FSumTo(s, n - 1), s[n])

\* np.diff of a grid of finite values.
diff(x) == [j \in 1..(Len(x) - 1) |-> FSub(x[j + 1], x[j])]

\* np.cumsum
cumsum(s) == [i \in 1..Len(s) |-> FSumTo(s, i)]

\* np.trapezoid(y, x) = sum(diff(x) * (y[1:] + y[:-1]) / 2.0)
trapezoid(y, x) ==
    FSumTo([j \in 1..(Len(x) - 1) |->
               FDiv(FMul(diff(x)[j], FAdd(y[j + 1], y[j])), Fin(2))],
           Len(x) - 1)

\* np.argmin: the first index of the minimum; a nan counts as the minimum.
argmin(s) ==
    IF \E i \in DOMAIN s : IsNaN(s[i])
    THEN CHOOSE i \in DOMAIN s : IsNaN(s[i]) /\ \A j \in 1..(i - 1) : ~IsNaN(s[j])
    ELSE CHOOSE i \in DOMAIN s :
            /\ \A j \in DOMAIN s : FLe(s[i], s[j])
            /\ \A j \in 1..(i - 1) : ~FLe(s[j], s[i])

\* ------------------------------------------------------------------ state
VARIABLES
    prog,             \* which entry point runs: "graphentropia", "entropy", "evaluator"
    pc,               \* graphentropia.main: "prompt", "show1".."show4" (in plt.show()), "done"
    k,                \* graphentropia's module-level k (line 11)
    choice,           \* the last input() read by main
    called,           \* the plot function the last selection dispatched to
    out,              \* the message printed since the last input() ("" if none)
    plotted,          \* plot_energy_fraction reached its plotting code
    E_values,         \* plot_energy_fraction: the grid
    f_E,              \* plot_energy_fraction: the sampled density
    total_integral,   \* plot_energy_fraction: np.trapezoid(f_E, E_values)
    f_E_normalized,   \* plot_energy_fraction: f_E / total_integral
    cumulative,       \* plot_energy_fraction: the cumulative fraction
    markers,          \* plot_energy_fraction: idx of each percentage marker
    fig1,             \* plot_boltzmann_distribution's window
    fig4,             \* plot_stefan_boltzmann's window
    st,               \* entropy.main: the widgets and outputs of the last run
    ev                \* the last direct call of an evaluator function and its result

vars == <<prog, pc, k, choice, called, out, plotted, E_values, f_E, total_integral,
          f_E_normalized, cumulative, markers, fig1, fig4, st, ev>>

cliVars == <<pc, k, choice, called, out, plotted, E_values, f_E, total_integral,
             f_E_normalized, cumulative, markers, fig1, fig4>>

\* ------------------------------------------- plot_energy_fraction (lines 114-175)
\* The fractions marked on the cumulative curve (line 167).
Fracs == <<Rat(1, 4), Rat(1, 2), Rat(3, 4), Rat(9, 10)>>

\* The message of line 139.
ErroIntegral == "Erro: Integral invalida. Verifique os parametros."

\* Grids: strictly increasing positive energies (np.logspace from E_min > 0).
Grids ==
    {[j \in 1..GridLen |-> Fin(g[j])] :
        g \in {h \in [1..GridLen -> 1..MaxE] :
                  \A j \in 1..(GridLen - 1) : h[j] < h[j + 1]}}

\* What the density function can deliver at a grid point: a finite non-negative
\* value, or, its warnings being suppressed (line 120), a nan or an inf.
SampleValues == {Fin(n) : n \in 0..MaxDens} \cup {NaN, PosInf}
Samples == [1..GridLen -> SampleValues]

\* Line 138: the guard of the error path.
integral_invalid(total) == FLe(total, Fin(0))

\* Line 143.
normalize(f, total) == [j \in DOMAIN f |-> FDiv(f[j], total)]

\* Lines 146-147: cumsum(f_E_normalized[:-1] * diff(E_values)), 0 inserted in front.
cumulative_fraction(fn, x) ==
    <<Fin(0)>> \o cumsum([j \in 1..(Len(x) - 1) |-> FMul(fn[j], diff(x)[j])])

\* Line 168 with np.argmax in the place of np.argmin: the farthest value.
marker_idx_argmax(c, frac) ==
    LET d == [i \in DOMAIN c |-> FAbs(FSub(c[i], frac))]
    IN  IF \E i \in DOMAIN d : IsNaN(d[i])
        THEN argmin(d)
        ELSE CHOOSE i \in DOMAIN d :
                /\ \A j \in DOMAIN d : FLe(d[j], d[i])
                /\ \A j \in 1..(i - 1) : ~FLe(d[i], d[j])

\* Line 168: idx = argmin(abs(cumulative - frac)).
marker_idx(c, frac) == argmin([i \in DOMAIN c |-> FAbs(FSub(c[i], frac))])

NoFig1 == [open |-> FALSE, T |-> 0, emp_line |-> Fin(0), eme_line |-> Fin(0)]
NoFig4 == [open |-> FALSE, emiss |-> Fin(0), area |-> 0, T1 |-> 0, T2 |-> 0,
           lo |-> 0, hi |-> 0, ncoll |-> 0, energia |-> Fin(0)]

ClearEnergyFraction ==
    /\ plotted' = FALSE
    /\ E_values' = <<>>
    /\ f_E' = <<>>
    /\ total_integral' = Fin(0)
    /\ f_E_normalized' = <<>>
    /\ cumulative' = <<>>
    /\ markers' = <<>>

\* The error path leaving the program instead of returning to the loop.
after_invalid_integral_exit == "done"

\* Where main's loop is after plot_energy_fraction returns through line 140.
after_invalid_integral == "prompt"

\* plot_energy_fraction for a grid x and the samples f, up to plt.show() (line
\* 175) or to the return of line 140, after which its locals are gone.
plot_energy_fraction(x, f) ==
    LET total == trapezoid(f, x)
        fn == normalize(f, total)
        c == cumulative_fraction(fn, x)
    IN  /\ IF integral_invalid(total)
           THEN /\ out' = ErroIntegral
                /\ plotted' = FALSE
                /\ E_values' = <<>>
                /\ f_E' = <<>>
                /\ total_integral' = Fin(0)
                /\ f_E_normalized' = <<>>
                /\ cumulative' = <<>>
                /\ markers' = <<>>
                /\ pc' = after_invalid_integral
           ELSE /\ out' = ""
                /\ plotted' = TRUE
                /\ E_values' = x
                /\ f_E' = f
                /\ total_integral' = total
                /\ f_E_normalized' = fn
                /\ cumulative' = c
                /\ markers' = [n \in DOMAIN Fracs |-> marker_idx(c, Fracs[n])]
                /\ pc' = "show3"

\* ------------------------------------------------ classes of float results
\* The distribution formulas use sqrt, exp and log, whose values are not
\* rational: their results are modelled by class.  "nan", "ninf", "pinf",
\* "zero", "neg", "pos" are exact; "fin" is a finite value of unknown sign.
\* Finite products and sums are taken not to overflow; exp of a negative finite
\* argument underflows to zero when the caller's flag uf says so.
ClsOf(a) ==
    IF IsNaN(a) THEN "nan"
    ELSE IF IsInf(a) THEN (IF a.num > 0 THEN "pinf" ELSE "ninf")
    ELSE IF a.num > 0 THEN "pos" ELSE IF a.num < 0 THEN "neg" ELSE "zero"

ClsOfInt(n) == IF n > 0 THEN "pos" ELSE IF n < 0 THEN "neg" ELSE "zero"

CSign(c) == IF c \in {"pos", "pinf"} THEN 1 ELSE IF c \in {"neg", "ninf"} THEN -1 ELSE 0
CIsInf(c) == c \in {"pinf", "ninf"}

CNeg(c) ==
    CASE c = "pos" -> "neg" [] c = "neg" -> "pos"
      [] c = "pinf" -> "ninf" [] c = "ninf" -> "pinf"
      [] OTHER -> c

\* Product of two values of exact class.
CMul(a, b) ==
    IF a = "nan" \/ b = "nan" THEN "nan"
    ELSE IF CIsInf(a) \/ CIsInf(b)
         THEN (IF a = "zero" \/ b = "zero" THEN "nan"
               ELSE IF CSign(a) * CSign(b) > 0 THEN "pinf" ELSE "ninf")
    ELSE IF a = "zero" \/ b = "zero" THEN "zero"
    ELSE IF CSign(a) * CSign(b) > 0 THEN "pos" ELSE "neg"

\* Quotient by a finite non-zero value b ("pos" or "neg").
CDiv(a, b) == CMul(a, b)

\* Sum; two finite terms give a finite value of unknown sign.
CAdd(a, b) ==
    IF a = "nan" \/ b = "nan" THEN "nan"
    ELSE IF CIsInf(a) /\ CIsInf(b) THEN (IF a = b THEN a ELSE "nan")
    ELSE IF CIsInf(a) THEN a
    ELSE IF CIsInf(b) THEN b
    ELSE IF a = "zero" THEN b
    ELSE IF b = "zero" THEN a
    ELSE "fin"

\* np.sqrt
CSqrt(c) == IF c \in {"nan", "neg", "ninf"} THEN "nan" ELSE c

\* np.log
CLog(c) ==
    CASE c \in {"nan", "neg", "ninf"} -> "nan"
      [] c = "zero" -> "ninf"
      [] c = "pinf" -> "pinf"
      [] OTHER -> "fin"

\* np.exp
CExp(c, uf) ==
    CASE c = "nan" -> "nan"
      [] c = "ninf" -> "zero"
      [] c = "pinf" -> "pinf"
      [] c \in {"neg", "fin"} -> (IF uf THEN "zero" ELSE "pos")
      [] OTHER -> "pos"

\* ------------------------------------------------------ evaluator results
Value(c, v) == [kind |-> "value", exc |-> "", cls |-> c, val |-> v]
Raise(e) == [kind |-> "raise", exc |-> e, cls |-> "", val |-> NaN]

RECURSIVE Pow(_, _)
Pow(b, n) == IF n = 0 THEN 1 ELSE b * Pow(b, n - 1)

\* entropy.py lines 12-20 (and graphentropia.py lines 15-19, the same formula):
\* coeff * np.sqrt(E) * np.exp(-E / (k * T)), T a Python scalar.
\* (k * T) ** 1.5 is 0.0 for T = 0, so that 1.0 / it raises ZeroDivisionError,
\* and is a complex number for T < 0.
boltzmann_energy_dist(E, T, uf) ==
    IF T = 0 THEN Raise("ZeroDivisionError")
    ELSE IF T < 0 THEN Value("complex", NaN)
    ELSE LET cE == ClsOf(E)
             coeff == "pos"
         IN  Value(CMul(CMul(coeff, CSqrt(cE)), CExp(CDiv(CNeg(cE), "pos"), uf)), NaN)

\* graphentropia.py lines 118-124: the same density evaluated in log space.
\* 1 / (k * T) raises ZeroDivisionError for T = 0; np.log of it is nan for T < 0.
boltzmann_distribution(E, T, uf) ==
    IF T = 0 THEN Raise("ZeroDivisionError")
    ELSE LET cE == ClsOf(E)
             log_coeff == CAdd("pos", CLog(ClsOfInt(T)))
             log_val == CAdd(CAdd(log_coeff, CLog(cE)), CNeg(CDiv(cE, ClsOfInt(T))))
         IN  Value(CExp(log_val, uf), NaN)

\* entropy.py lines 23-31: pref * v ** 2 * np.exp(-m * v ** 2 / (2.0 * k * T)),
\* pref = 4 pi (m / (2 pi k T)) ** 1.5, m and T Python scalars.
maxwell_boltzmann_speed_dist(v, T, m, uf) ==
    IF T = 0 THEN Raise("ZeroDivisionError")
    ELSE LET ratio == CDiv(ClsOfInt(m), ClsOfInt(T))
             v2 == CMul(ClsOf(v), ClsOf(v))
             arg == CDiv(CNeg(CMul(ClsOfInt(m), v2)), ClsOfInt(T))
         IN  IF ratio = "neg" THEN Value("complex", NaN)
             ELSE Value(CMul(CMul(ratio, v2), CExp(arg, uf)), NaN)

\* entropy.py lines 34-36 and graphentropia.py lines 187-188:
\* emissivity * sigma * A * T ** 4, in units of 1e-10 W.
stefan_boltzmann_power_sum(T, A, emissivity) ==
    FAdd(FMul(FMul(emissivity, Fin(Sigma)), Fin(A)), Fin(Pow(T, 4)))

stefan_boltzmann_power(T, A, emissivity) ==
    FMul(FMul(FMul(emissivity, Fin(Sigma)), Fin(A)), Fin(Pow(T, 4)))

\* scipy.integrate.quad of the integrand c * T ** 4 over [a, b], taken as the
\* exact integral c * (b^5 - a^5) / 5 (quad is library code).
quad_T4(c, a, b) == FMul(c, Rat(Pow(b, 5) - Pow(a, 5), 5))

\* entropy.py lines 39-42 and graphentropia.py lines 190-193.
energia_total_radiada(T1, T2, A, emissivity) ==
    quad_T4(FMul(FMul(emissivity, Fin(Sigma)), Fin(A)), T1, T2)

\* ------------------------------------------------- graphentropia.py windows
Min(a, b) == IF a <= b THEN a ELSE b
Max(a, b) == IF a >= b THEN a ELSE b

\* Temperatures of the sliders are in units of 100 K.
\* plot_boltzmann_distribution, lines 36-37 and 50-61: the two vertical lines
\* at 0.5 k T and 1.5 k T, read from the module-level k.
update1(T) ==
    [open |-> TRUE, T |-> T, emp_line |-> Rat(k * T, 2), eme_line |-> Rat(3 * k * T, 2)]

\* T_init = 300 (line 26).
T_init == 3

\* update without line 241: the sliders' values used in the order they come.
update_unordered(emiss, area, T1s, T2s, ncoll) ==
    [open |-> TRUE, emiss |-> emiss, area |-> area, T1 |-> T1s, T2 |-> T2s,
     lo |-> T1s, hi |-> T2s,
     ncoll |-> (ncoll - ncoll) + 1,
     energia |-> energia_total_radiada(T1s, T2s, area, emiss)]

\* plot_stefan_boltzmann.update, lines 234-257, on the sliders' values.
update(emiss, area, T1s, T2s, ncoll) ==
    LET T1 == Min(T1s, T2s)
        T2 == Max(T1s, T2s)
    IN  [open |-> TRUE, emiss |-> emiss, area |-> area, T1 |-> T1s, T2 |-> T2s,
         lo |-> T1, hi |-> T2,
         ncoll |-> (ncoll - ncoll) + 1,
         energia |-> energia_total_radiada(T1, T2, area, emiss)]

\* The slider ranges of lines 229-232: emissivity 0.01..1, area 0.1..10,
\* T1 100..1900 K, T2 200..2000 K (T2's range is T1's shifted up by 100 K).
EmissSlider == {Rat(j, EmissSteps) : j \in 1..EmissSteps}
AreaSlider == 1..MaxA
T1Slider == 1..MaxT
T2Slider == 2..(MaxT + 1)

\* emissividade_init = 0.95 (line 203), taken as the top of the model's range;
\* area_init = 1.0 (line 204).
emissividade_init == Rat(EmissSteps, EmissSteps)

\* T_min = 200 (line 199).
T_min == 2
\* T_max (line 200) lies inside T2's range; the model's range ends at MaxT + 1.
T_max == MaxT + 1

\* --------------------------------------------- graphentropia.main (268-289)
\* Each Choice action is one iteration of the loop up to the point where it
\* waits: in input() again, or in the plt.show() of the window it opened.
\* plot_stefan_boltzmann draws the first shaded region (line 209) and calls
\* update once (line 262) before plt.show().
OpcaoInvalida == "Opcao invalida. Tente novamente."
QuitInputs == {"q", "Q"}
\* The comparison with 'q' made without lower(): 'Q' falls to the else branch.
OtherInputs_case_sensitive == {"", "5", "x", "Q"}

OtherInputs == {"", "5", "x"}

Choice1 ==
    /\ prog = "graphentropia" /\ pc = "prompt"
    /\ choice' = "1"
    /\ called' = "plot_boltzmann_distribution"
    /\ out' = ""
    /\ fig1' = update1(T_init)
    /\ fig4' = NoFig4
    /\ ClearEnergyFraction
    /\ pc' = "show1"
    /\ UNCHANGED <<prog, k, st, ev>>

\* The temperature slider of plot_boltzmann_distribution moves (100..1000 K).
Slide1 ==
    /\ prog = "graphentropia" /\ pc = "show1"
    /\ \E T \in 1..MaxT : fig1' = update1(T)
    /\ UNCHANGED <<prog, pc, k, choice, called, out, plotted, E_values, f_E,
                   total_integral, f_E_normalized, cumulative, markers, fig4, st, ev>>

Close1 ==
    /\ prog = "graphentropia" /\ pc = "show1"
    /\ fig1' = NoFig1
    /\ pc' = "prompt"
    /\ UNCHANGED <<prog, k, choice, called, out, plotted, E_values, f_E,
                   total_integral, f_E_normalized, cumulative, markers, fig4, st, ev>>

Choice2 ==
    /\ prog = "graphentropia" /\ pc = "prompt"
    /\ choice' = "2"
    /\ called' = "plot_entropy_temperature"
    /\ out' = ""
    /\ fig1' = NoFig1
    /\ fig4' = NoFig4
    /\ ClearEnergyFraction
    /\ pc' = "show2"
    /\ UNCHANGED <<prog, k, st, ev>>

Close2 ==
    /\ prog = "graphentropia" /\ pc = "show2"
    /\ pc' = "prompt"
    /\ UNCHANGED <<prog, k, choice, called, out, plotted, E_values, f_E,
                   total_integral, f_E_normalized, cumulative, markers, fig1, fig4, st, ev>>

Choice3 ==
    /\ prog = "graphentropia" /\ pc = "prompt"
    /\ choice' = "3"
    /\ called' = "plot_energy_fraction"
    /\ fig1' = NoFig1
    /\ fig4' = NoFig4
    /\ \E x \in Grids, f \in Samples : plot_energy_fraction(x, f)
    /\ UNCHANGED <<prog, k, st, ev>>

\* The figure of plot_energy_fraction is closed: plt.show() returns.
Close3 ==
    /\ prog = "graphentropia" /\ pc = "show3"
    /\ ClearEnergyFraction
    /\ pc' = "prompt"
    /\ UNCHANGED <<prog, k, choice, called, out, fig1, fig4, st, ev>>

Choice4 ==
    /\ prog = "graphentropia" /\ pc = "prompt"
    /\ choice' = "4"
    /\ called' = "plot_stefan_boltzmann"
    /\ out' = ""
    /\ fig1' = NoFig1
    /\ fig4' = update(emissividade_init, 1, T_min, T_max, 1)
    /\ ClearEnergyFraction
    /\ pc' = "show4"
    /\ UNCHANGED <<prog, k, st, ev>>

\* One of the four sliders of plot_stefan_boltzmann moves and update runs.
Slide4 ==
    /\ prog = "graphentropia" /\ pc = "show4"
    /\ \/ \E v \in EmissSlider : fig4' = update(v, fig4.area, fig4.T1, fig4.T2, fig4.ncoll)
       \/ \E v \in AreaSlider : fig4' = update(fig4.emiss, v, fig4.T1, fig4.T2, fig4.ncoll)
       \/ \E v \in T1Slider : fig4' = update(fig4.emiss, fig4.area, v, fig4.T2, fig4.ncoll)
       \/ \E v \in T2Slider : fig4' = update(fig4.emiss, fig4.area, fig4.T1, v, fig4.ncoll)
    /\ UNCHANGED <<prog, pc, k, choice, called, out, plotted, E_values, f_E,
                   total_integral, f_E_normalized, cumulative, markers, fig1, st, ev>>

Close4 ==
    /\ prog = "graphentropia" /\ pc = "show4"
    /\ fig4' = NoFig4
    /\ pc' = "prompt"
    /\ UNCHANGED <<prog, k, choice, called, out, plotted, E_values, f_E,
                   total_integral, f_E_normalized, cumulative, markers, fig1, st, ev>>

ChoiceQuit ==
    /\ prog = "graphentropia" /\ pc = "prompt"
    /\ choice' \in QuitInputs
    /\ called' = "none"
    /\ out' = ""
    /\ fig1' = NoFig1
    /\ fig4' = NoFig4
    /\ ClearEnergyFraction
    /\ pc' = "done"
    /\ UNCHANGED <<prog, k, st, ev>>

ChoiceInvalid ==
    /\ prog = "graphentropia" /\ pc = "prompt"
    /\ choice' \in OtherInputs
    /\ called' = "none"
    /\ out' = OpcaoInvalida
    /\ fig1' = NoFig1
    /\ fig4' = NoFig4
    /\ ClearEnergyFraction
    /\ UNCHANGED <<prog, pc, k, st, ev>>

\* ----------------------------------------------------- entropy.main (45-326)
\* One run of the Streamlit script with the visualisation chosen at line 203 and
\* the values of that page's widgets.  The explanatory text, the walkthrough
\* and the mini-laboratory (lines 258-293) are not modelled.
NoSt == [page |-> "", T |-> 0, T1 |-> 0, T2 |-> 0, A |-> 0, emissivity |-> Fin(0),
         potencia |-> Fin(0), energia |-> Fin(0), fE |-> <<>>]

\* Line 208: E_vals = np.linspace(0, 10 * k * T, 500), in units of the grid step.
E_vals == [j \in 1..GridLen |-> Fin(j - 1)]

\* Lines 205-219; the slider gives T in 50..1500 K.
StBoltzmann ==
    /\ prog = "entropy"
    /\ \E T \in 1..MaxT :
          st' = [NoSt EXCEPT !.page = "boltzmann", !.T = T,
                    !.fE = [j \in 1..GridLen |-> boltzmann_energy_dist(E_vals[j], T, FALSE).cls]]
    /\ UNCHANGED <<prog, ev>> /\ UNCHANGED cliVars

\* Lines 221-226.
StEntropy ==
    /\ prog = "entropy"
    /\ st' = [NoSt EXCEPT !.page = "entropy"]
    /\ UNCHANGED <<prog, ev>> /\ UNCHANGED cliVars

\* Lines 228-241 (the value of the integral is not modelled).
StCdf ==
    /\ prog = "entropy"
    /\ \E T \in 1..MaxT : st' = [NoSt EXCEPT !.page = "cdf", !.T = T]
    /\ UNCHANGED <<prog, ev>> /\ UNCHANGED cliVars

\* What st.number_input can deliver for T1, T2 and A: any number.
NumberInputT == -1..MaxT
NumberInputA == -1..MaxA
\* Line 248: the emissivity slider, 0.0..1.0.
EmissivitySlider == {Rat(j, EmissSteps) : j \in 0..EmissSteps}

\* Lines 243-253 for the widget values T1, T2, A, emissivity.
stefan_page(T1, T2, A, emissivity) ==
    [NoSt EXCEPT !.page = "stefan_boltzmann",
        !.T1 = T1, !.T2 = T2, !.A = A, !.emissivity = emissivity,
        !.potencia = stefan_boltzmann_power(T2, A, emissivity),
        !.energia = energia_total_radiada(T1, T2, A, emissivity)]

\* The page is selected: its widgets hold their defaults (T1 < T2, A = 1.0,
\* emissivity = 1.0; lines 245-248).
StStefan ==
    /\ prog = "entropy"
    /\ st.page # "stefan_boltzmann"
    /\ st' = stefan_page(1, MaxT, 1, Rat(EmissSteps, EmissSteps))
    /\ UNCHANGED <<prog, ev>> /\ UNCHANGED cliVars

\* One widget of the page is changed and the script runs again.
StStefanInput ==
    /\ prog = "entropy"
    /\ st.page = "stefan_boltzmann"
    /\ \/ \E v \in NumberInputT : st' = stefan_page(v, st.T2, st.A, st.emissivity)
       \/ \E v \in NumberInputT : st' = stefan_page(st.T1, v, st.A, st.emissivity)
       \/ \E v \in NumberInputA : st' = stefan_page(st.T1, st.T2, v, st.emissivity)
       \/ \E v \in EmissivitySlider : st' = stefan_page(st.T1, st.T2, st.A, v)
    /\ UNCHANGED <<prog, ev>> /\ UNCHANGED cliVars

\* ------------------------------------------- the evaluator functions, called
\* A caller applies one of entropy.py's functions (or plot_energy_fraction's
\* density function) to arguments of its choice; ev holds the call and what
\* it gave until the caller drops it.
NoEv == [fn |-> "", E |-> Fin(0), T |-> 0, m |-> 0, A |-> 0, emissivity |-> Fin(0),
         T1 |-> 0, ret |-> Value("zero", Fin(0))]

\* Energies and speeds a caller can pass: finite of either sign, or inf.
ArgValues == {Fin(n) : n \in -1..MaxE} \cup {PosInf}

CallEnergyDist ==
    /\ prog = "evaluator" /\ ev.fn = ""
    /\ \E E \in ArgValues, T \in -1..MaxT, uf \in BOOLEAN :
          ev' = [NoEv EXCEPT !.fn = "boltzmann_energy_dist", !.E = E, !.T = T,
                    !.ret = boltzmann_energy_dist(E, T, uf)]
    /\ UNCHANGED <<prog, st>> /\ UNCHANGED cliVars

CallLogEnergyDist ==
    /\ prog = "evaluator" /\ ev.fn = ""
    /\ \E E \in ArgValues, T \in -1..MaxT, uf \in BOOLEAN :
          ev' = [NoEv EXCEPT !.fn = "boltzmann_distribution", !.E = E, !.T = T,
                    !.ret = boltzmann_distribution(E, T, uf)]
    /\ UNCHANGED <<prog, st>> /\ UNCHANGED cliVars

CallSpeedDist ==
    /\ prog = "evaluator" /\ ev.fn = ""
    /\ \E v \in ArgValues, T \in -1..MaxT, m \in -1..MaxA, uf \in BOOLEAN :
          ev' = [NoEv EXCEPT !.fn = "maxwell_boltzmann_speed_dist", !.E = v, !.T = T,
                    !.m = m, !.ret = maxwell_boltzmann_speed_dist(v, T, m, uf)]
    /\ UNCHANGED <<prog, st>> /\ UNCHANGED cliVars

CallPower ==
    /\ prog = "evaluator" /\ ev.fn = ""
    /\ \E T \in -1..MaxT, A \in -1..MaxA, emissivity \in EmissivitySlider :
          LET p == stefan_boltzmann_power(T, A, emissivity)
          IN  ev' = [NoEv EXCEPT !.fn = "stefan_boltzmann_power", !.T = T, !.A = A,
                        !.emissivity = emissivity, !.ret = Value(ClsOf(p), p)]
    /\ UNCHANGED <<prog, st>> /\ UNCHANGED cliVars

CallEnergia ==
    /\ prog = "evaluator" /\ ev.fn = ""
    /\ \E T1 \in -1..MaxT, T2 \in -1..MaxT, A \in -1..MaxA,
          emissivity \in EmissivitySlider :
          LET e == energia_total_radiada(T1, T2, A, emissivity)
          IN  ev' = [NoEv EXCEPT !.fn = "energia_total_radiada_numeric", !.T1 = T1,
                        !.T = T2, !.A = A, !.emissivity = emissivity,
                        !.ret = Value(ClsOf(e), e)]
    /\ UNCHANGED <<prog, st>> /\ UNCHANGED cliVars

Drop ==
    /\ prog = "evaluator" /\ ev.fn # ""
    /\ ev' = NoEv
    /\ UNCHANGED <<prog, st>> /\ UNCHANGED cliVars

\* ------------------------------------------------------------ specification
Init ==
    /\ prog \in {"graphentropia", "entropy", "evaluator"}
    /\ pc = "prompt"
    /\ k = KBoltz
    /\ choice = ""
    /\ called = "none"
    /\ out = ""
    /\ plotted = FALSE
    /\ E_values = <<>>
    /\ f_E = <<>>
    /\ total_integral = Fin(0)
    /\ f_E_normalized = <<>>
    /\ cumulative = <<>>
    /\ markers = <<>>
    /\ fig1 = NoFig1
    /\ fig4 = NoFig4
    /\ st = NoSt
    /\ ev = NoEv

Next ==
    \/ Choice1 \/ Slide1 \/ Close1
    \/ Choice2 \/ Close2
    \/ Choice3 \/ Close3
    \/ Choice4 \/ Slide4 \/ Close4
    \/ ChoiceQuit
    \/ ChoiceInvalid
    \/ StBoltzmann \/ StEntropy \/ StCdf \/ StStefan \/ StStefanInput
    \/ CallEnergyDist \/ CallLogEnergyDist \/ CallSpeedDist \/ CallPower \/ CallEnergia
    \/ Drop

Spec == Init /\ [][Next]_vars

\* ------------------------------------------------------------------ claims
\* The samples are all finite and non-negative.
NonNegativeDensity(f) == \A j \in DOMAIN f : IsFin(f[j]) /\ f[j].num >= 0

\* plot_energy_fraction has handed its curves to the renderer.
Rendered == prog = "graphentropia" /\ pc = "show3"

\* C1: for a strictly increasing grid and a non-negative sampled density whose
\* trapezoid total is positive, the cumulative distribution starts at 0, is
\* non-decreasing, and every element of it lies in [0, 1].
C1_CumulativeInUnitInterval ==
    (Rendered /\ NonNegativeDensity(f_E) /\ FLt(Fin(0), total_integral)) =>
        /\ cumulative[1] = Fin(0)
        /\ \A i \in 1..(Len(cumulative) - 1) : FLe(cumulative[i], cumulative[i + 1])
        /\ \A i \in DOMAIN cumulative :
              FLe(Fin(0), cumulative[i]) /\ FLe(cumulative[i], Fin(1))

\* The trapezoid rule applied to the first i points of the grid.
RunningTrapezoid(y, x, i) == trapezoid(SubSeq(y, 1, i), SubSeq(x, 1, i))

\* C2: the cumulative value at each grid point is the running sum of the
\* trapezoid areas of the normalized density up to that point (the rule that
\* gave the normalizing total), so that the last cumulative value is 1.
C2_CumulativeIsRunningTrapezoid ==
    (Rendered /\ NonNegativeDensity(f_E)) =>
        /\ \A i \in DOMAIN cumulative :
              FEq(cumulative[i], RunningTrapezoid(f_E_normalized, E_values, i))
        /\ FEq(cumulative[Len(cumulative)], Fin(1))

\* C3: a cumulative sequence reaches the renderer only when its last element
\* is within 1e-3 of 1.
C3_RenderedOnlyWithinTolerance ==
    Rendered =>
        FLe(FAbs(FSub(cumulative[Len(cumulative)], Fin(1))), Rat(1, 1000))

\* C4: when the trapezoid total is zero, negative or not finite the density is
\* not divided by it and nothing normalized is produced: whatever is rendered
\* was normalized by a finite positive total.
C4_DegenerateTotalNotNormalized ==
    Rendered => (IsFin(total_integral) /\ total_integral.num > 0)

\* The first index whose value reaches or exceeds frac.
lower_bound(c, frac) ==
    CHOOSE i \in DOMAIN c : FLe(frac, c[i]) /\ \A j \in 1..(i - 1) : ~FLe(frac, c[j])

\* C5: on a non-decreasing cumulative sequence the marker of each fraction is
\* the first index whose cumulative value reaches or exceeds the fraction,
\* whenever some index reaches it.
C5_MarkerIsLowerBound ==
    (/\ Rendered
     /\ \A i \in DOMAIN cumulative : IsFin(cumulative[i])
     /\ \A i \in 1..(Len(cumulative) - 1) : FLe(cumulative[i], cumulative[i + 1])) =>
        \A n \in DOMAIN Fracs :
            (\E i \in DOMAIN cumulative : FLe(Fracs[n], cumulative[i])) =>
                markers[n] = lower_bound(cumulative, Fracs[n])

\* The call held in ev was given a non-positive temperature, mass or area.
NonPositiveParameter ==
    \/ ev.fn \in {"boltzmann_energy_dist", "boltzmann_distribution"} /\ ev.T <= 0
    \/ ev.fn = "maxwell_boltzmann_speed_dist" /\ (ev.T <= 0 \/ ev.m <= 0)
    \/ ev.fn = "stefan_boltzmann_power" /\ (ev.T <= 0 \/ ev.A <= 0)
    \/ ev.fn = "energia_total_radiada_numeric" /\ (ev.T1 <= 0 \/ ev.T <= 0 \/ ev.A <= 0)

\* C6: an evaluator call given a non-positive temperature, mass or area ends in
\* an error reported to the caller and returns no value.
C6_NonPositiveParameterIsError ==
    NonPositiveParameter => ev.ret.kind = "raise"

\* C7: every value of the energy density (for a temperature > 0) is finite and
\* non-negative, 0 at E = 0, and 0 wherever the formula gives nan or inf.
C7_DensityFiniteNonNegative ==
    (ev.fn \in {"boltzmann_energy_dist", "boltzmann_distribution"} /\ ev.T > 0) =>
        /\ ev.ret.kind = "value"
        /\ ev.ret.cls \in {"zero", "pos"}
        /\ (ev.E = Fin(0) => ev.ret.cls = "zero")

\* C8 as stated: stefan_boltzmann_power is 0 at T = 0, and for every area > 0
\* and emissivity in [0, 1] strictly increasing in T > 0.
C8_PowerStrictlyIncreasing ==
    ev.fn = "stefan_boltzmann_power" =>
        /\ (ev.T = 0 => FEq(ev.ret.val, Fin(0)))
        /\ (ev.A > 0 /\ ev.T > 0) =>
              \A Ta \in 1..MaxT :
                  Ta < ev.T =>
                      FLt(stefan_boltzmann_power(Ta, ev.A, ev.emissivity), ev.ret.val)

\* C8 amended: stefan_boltzmann_power is 0 at T = 0; for every area > 0 it is
\* strictly increasing in T > 0 when the emissivity is in (0, 1], and is
\* constantly 0 when the emissivity is 0.
C8_PowerIncreasingForPositiveEmissivity ==
    ev.fn = "stefan_boltzmann_power" =>
        /\ (ev.T = 0 => FEq(ev.ret.val, Fin(0)))
        /\ (ev.A > 0 /\ ev.T > 0) =>
              \A Ta \in 1..MaxT :
                  Ta < ev.T =>
                      LET pa == stefan_boltzmann_power(Ta, ev.A, ev.emissivity)
                      IN  IF ev.emissivity.num > 0
                          THEN FLt(pa, ev.ret.val)
                          ELSE FEq(pa, Fin(0)) /\ FEq(ev.ret.val, Fin(0))

\* A call with area > 0, emissivity > 0 and a temperature above another one.
C8_Witness ==
    /\ ev.fn = "stefan_boltzmann_power"
    /\ ev.A > 0
    /\ ev.emissivity.num > 0
    /\ ev.T >= 2
    /\ FLt(Fin(0), ev.ret.val)

\* The plot function main dispatches to for an input.
Dispatch(c) ==
    CASE c = "1" -> "plot_boltzmann_distribution"
      [] c = "2" -> "plot_entropy_temperature"
      [] c = "3" -> "plot_energy_fraction"
      [] c = "4" -> "plot_stefan_boltzmann"
      [] OTHER -> "none"

\* C10: no step of the command-line program changes the module-level k; the
\* invalid-integral path of plot_energy_fraction leaves main at its prompt
\* (waiting in input()); and every selection read at the prompt, also the one
\* after an invalid integral, is dispatched to its own function, the loop
\* ending only on 'q' or 'Q'.
C10_NoFailureLeaks ==
    [][/\ k' = k
       /\ (prog' = "graphentropia" /\ out' = ErroIntegral) => pc' = "prompt"
       /\ (prog = "graphentropia" /\ pc = "prompt") =>
             /\ called' = Dispatch(choice')
             /\ (pc' = "done") = (choice' \in QuitInputs)]_vars

\* plot_energy_fraction has just ended on its invalid-integral path.
C10_Witness ==
    /\ prog = "graphentropia"
    /\ choice = "3"
    /\ out = ErroIntegral
    /\ pc = "prompt"
    /\ k = KBoltz

\* main is waiting in the plt.show() of a window it opened.
Showing == pc \in {"show1", "show2", "show3", "show4"}

\* C12: the menu loop of graphentropia.main ends if and only if 'q' or 'Q' is
\* read.  An input '1'..'4' calls the matching plot function, and only it,
\* prints no invalid-option message, and main is at its prompt again once that
\* function returns (through its window being closed or, for '3', through the
\* invalid-integral return); every other input prints the invalid-option
\* message, calls no plot function and leaves main at its prompt; once ended,
\* the loop reads nothing more.
C12_LoopEndsOnlyOnQuit ==
    [][prog = "graphentropia" =>
          /\ pc = "prompt" =>
                /\ choice' = "1" =>
                      called' = "plot_boltzmann_distribution" /\ pc' = "show1"
                /\ choice' = "2" =>
                      called' = "plot_entropy_temperature" /\ pc' = "show2"
                /\ choice' = "3" =>
                      called' = "plot_energy_fraction" /\ pc' \in {"show3", "prompt"}
                /\ choice' = "4" =>
                      called' = "plot_stefan_boltzmann" /\ pc' = "show4"
                /\ choice' \in {"1", "2", "3", "4"} => out' # OpcaoInvalida
                /\ choice' \in {"q", "Q"} =>
                      called' = "none" /\ out' = "" /\ pc' = "done"
                /\ choice' \notin {"1", "2", "3", "4", "q", "Q"} =>
                      called' = "none" /\ out' = OpcaoInvalida /\ pc' = "prompt"
          /\ Showing =>
                pc' \in {pc, "prompt"} /\ called' = called /\ choice' = choice
          /\ pc' = "done" =>
                (pc = "done" \/ (pc = "prompt" /\ choice' \in {"q", "Q"}))
          /\ pc = "done" => (pc' = "done" /\ choice' = choice)]_vars

\* The loop has ended on an upper-case 'Q'.
C12_Witness ==
    /\ prog = "graphentropia"
    /\ pc = "done"
    /\ choice = "Q"
    /\ called = "none"
    /\ out = ""

\* C13: whenever the window of plot_stefan_boltzmann is open (update has run, at
\* line 262 and after every slider change), the bounds given to the integrator
\* and to the shaded region are the two temperature sliders' values in
\* ascending order, the displayed energy is not negative, and the axes hold
\* exactly one shaded region.
C13_OrderedBoundsOneRegion ==
    (prog = "graphentropia" /\ fig4.open) =>
        /\ fig4.lo <= fig4.hi
        /\ {fig4.lo, fig4.hi} = {fig4.T1, fig4.T2}
        /\ FLe(Fin(0), fig4.energia)
        /\ fig4.ncoll = 1

\* The sliders stand with the initial temperature above the final one.
C13_Witness ==
    /\ prog = "graphentropia"
    /\ pc = "show4"
    /\ fig4.open
    /\ fig4.T1 > fig4.T2
    /\ fig4.lo < fig4.hi
    /\ FLt(Fin(0), fig4.energia)

\* The sequence is non-decreasing (which a sequence holding a nan is not).
NonDecreasing(c) == \A i \in 1..(Len(c) - 1) : FLe(c[i], c[i + 1])

\* C14: on a non-decreasing cumulative sequence the markers given by the
\* nearest-value lookup (the first index minimizing |cumulative - frac|) are
\* monotone in the fraction: a smaller fraction never gets a later index.
C14_MarkersMonotoneInFraction ==
    (Rendered /\ NonDecreasing(cumulative)) =>
        \A n, m \in DOMAIN Fracs :
            FLt(Fracs[n], Fracs[m]) => markers[n] <= markers[m]

\* A rendered non-decreasing cumulative sequence whose markers are spread over
\* different grid points, a tie having been broken towards the first index.
C14_Witness ==
    /\ Rendered
    /\ NonDecreasing(cumulative)
    /\ markers[1] < markers[2]
    /\ markers[2] < markers[4]
    /\ \E i \in DOMAIN cumulative :
          /\ i > markers[1]
          /\ FEq(FAbs(FSub(cumulative[i], Fracs[1])),
                 FAbs(FSub(cumulative[markers[1]], Fracs[1])))

====
